---- MODULE Spec2Model ----
(***************************************************************************)
(* Model of the Env class of fenviee (src/src/env/index.ts): the           *)
(* constructor with its required-key check (init), the accessor get, and   *)
(* the process environment that external code may change at any time.      *)
(***************************************************************************)
EXTENDS Naturals, Sequences, FiniteSets, TLC

(* ---------------- bounds of the model ---------------- *)

\* longest declared key list handed to the constructor
MaxDeclared == 2
\* longest required key list handed to the constructor
MaxRequired == 2

\* the key names in play
KeyNames == {"CLIENT_URL", "PORT"}
\* values a variable of the process environment may hold (always strings)
LiveVals == {"", "8080"}
\* values a default table may hold
DefaultVals == {"", "3000"}

(* ---------------- JavaScript values ---------------- *)

Str(s) == [type |-> "string", val |-> s]
False == [type |-> "boolean", val |-> "false"]
Undefined == [type |-> "undefined", val |-> "undefined"]

\* ToBoolean, which decides a || b: a string is truthy iff it is non-empty
Truthy(v) == v.type = "string" /\ v.val # ""

\* the three values of ignoreErrors: false, true, 0
Policies == {"false", "true", "0"}

\* ignoreErrors == false also holds of 0
LooselyFalse(policy) == policy \in {"false", "0"}

\* ignoreErrors === false
Raises(policy) == policy = "false"

\* ignoreErrors === true
Warns(policy) == policy = "true"

RECURSIVE Join(_, _)
\* Array.prototype.join
Join(s, sep) ==
  IF Len(s) = 0 THEN ""
  ELSE IF Len(s) = 1 THEN s[1]
  ELSE s[1] \o sep \o Join(Tail(s), sep)

\* Array.prototype.includes
Includes(s, k) == \E i \in 1..Len(s) : s[i] = k

RECURSIVE Dedupe(_)
\* Array.from(new Set(s)): first occurrences, in order
Dedupe(s) ==
  IF Len(s) = 0 THEN <<>>
  ELSE LET front == Dedupe(SubSeq(s, 1, Len(s) - 1))
           last == s[Len(s)]
       IN IF Includes(front, last) THEN front ELSE Append(front, last)

(* ---------------- the process environment ---------------- *)

\* process.env is a sequence of entries with distinct keys, in insertion order
EnvHas(env, k) == \E i \in 1..Len(env) : env[i].key = k

\* process.env[k]
EnvRead(env, k) ==
  IF EnvHas(env, k)
  THEN Str((CHOOSE e \in {env[i] : i \in 1..Len(env)} : e.key = k).val)
  ELSE Undefined

\* Object.keys(process.env)
ObjectKeys(env) == [i \in 1..Len(env) |-> env[i].key]

\* process.env[k] = v
EnvAssign(env, k, v) ==
  IF EnvHas(env, k)
  THEN [i \in 1..Len(env) |-> IF env[i].key = k THEN [key |-> k, val |-> v] ELSE env[i]]
  ELSE Append(env, [key |-> k, val |-> v])

\* delete process.env[k]
EnvDelete(env, k) == SelectSeq(env, LAMBDA e : e.key # k)

SeqsUpTo(S, n) == UNION {[1..m -> S] : m \in 0..n}

\* every process environment over KeyNames
EnvStates ==
  {e \in SeqsUpTo([key : KeyNames, val : LiveVals], Cardinality(KeyNames)) :
     \A i, j \in 1..Len(e) : e[i].key = e[j].key => i = j}

(* ---------------- default tables ---------------- *)

\* a default table is an object, or undefined when an untyped caller omits it
Table(m) == [defined |-> TRUE, map |-> m]
NoTable == [defined |-> FALSE, map |-> <<>>]
DefaultTables ==
  {Table(m) : m \in UNION {[D -> DefaultVals] : D \in SUBSET KeyNames}} \cup {NoTable}

\* default_env[k] of a defined table
TableRead(t, k) == IF k \in DOMAIN t.map THEN Str(t.map[k]) ELSE Undefined

(* ---------------- state ---------------- *)

VARIABLES
  penv,           \* process.env
  phase,          \* "new", "constructed", or "failed" when the constructor threw
  keys,           \* this.keys
  required_keys,  \* this.required_keys
  default_env,    \* this.default_env
  ignoreErrors,   \* this.ignoreErrors
  call,           \* the latest call and its arguments
  result,         \* <<v>> when the latest call returned v from get, else <<>>
  thrown,         \* <<msg>> when the latest call threw, else <<>>
  console,        \* the console.warn lines of the latest call
  stale           \* keys external code set or removed since the constructor ran

vars == <<penv, phase, keys, required_keys, default_env, ignoreErrors,
          call, result, thrown, console, stale>>

fields == <<keys, required_keys, default_env, ignoreErrors>>

Call(op, ks, k, a) == [op |-> op, keys |-> ks, key |-> k, arg |-> a]

(* ---------------- Env.init ---------------- *)

MissingPrefix == "keys in your .env are not defined. Define next keys:\n"

\* the message built on lines 107 and 109
MissingMessage(ks) == MissingPrefix \o Join(ks, ", ")

\* the array `keys` of one iteration of the loop: declared empty, the key pushed if unknown
IterationKeys(known, key) == IF ~Includes(known, key) THEN <<key>> ELSE <<>>

RECURSIVE InitLoop(_, _, _, _, _)
\* the for-of loop of init from its i-th iteration on; out is what was warned so far
InitLoop(required, known, policy, i, out) ==
  IF i > Len(required) THEN [thrown |-> <<>>, console |-> out]
  ELSE LET ks == IterationKeys(known, required[i])
       IN IF Len(ks) # 0
          THEN IF Raises(policy)
               THEN [thrown |-> <<MissingMessage(ks)>>, console |-> out]
               ELSE IF Warns(policy)
               THEN InitLoop(required, known, policy, i + 1, Append(out, MissingMessage(ks)))
               ELSE InitLoop(required, known, policy, i + 1, out)
          ELSE InitLoop(required, known, policy, i + 1, out)

init(required, known, policy) == InitLoop(required, known, policy, 1, <<>>)

(* ---------------- Env.constructor ---------------- *)

\* line 56 without the Set: duplicates stay
KnownKeysConcat(env, declared) == ObjectKeys(env) \o declared

\* line 56
KnownKeys(env, declared) == Dedupe(ObjectKeys(env) \o declared)

Construct(declared, required, defaults, policy) ==
  /\ phase = "new"
  /\ LET known == KnownKeys(penv, declared)
         r == init(required, known, policy)
     IN /\ keys' = known
        /\ required_keys' = required
        /\ default_env' = defaults
        /\ ignoreErrors' = policy
        /\ thrown' = r.thrown
        /\ console' = r.console
        /\ phase' = IF r.thrown = <<>> THEN "constructed" ELSE "failed"
  /\ call' = Call("Env", declared, "", "")
  /\ result' = <<>>
  /\ stale' = {}
  /\ UNCHANGED penv

(* ---------------- Env.get ---------------- *)

TypeErrorMessage == "TypeError: Cannot read properties of undefined"

\* a default-inclusion flag that is on when the argument is omitted
DefaultIncludesOn(arg) == arg # "false"

\* line 77: the parameter defaults to false when the argument is omitted
DefaultIncludes(arg) == IF arg = "omitted" THEN FALSE ELSE arg = "true"

Returned(v) == [returned |-> <<v>>, thrown |-> <<>>]
Thrown(msg) == [returned |-> <<>>, thrown |-> <<msg>>]

\* the right operand of || with the flag left out: the default table always read
FallbackIgnoringFlag(defaults, key, defaultIncludes) ==
  IF defaults.defined
  THEN Returned(TableRead(defaults, key))
  ELSE Thrown(TypeErrorMessage)

\* lines 82-84, the right operand of ||; reading a property of undefined throws
Fallback(defaults, key, defaultIncludes) ==
  IF defaultIncludes = TRUE
  THEN IF defaults.defined
       THEN Returned(TableRead(defaults, key))
       ELSE Thrown(TypeErrorMessage)
  ELSE Returned(False)

\* the try block with the operands of || swapped when defaults are included
ResolveDefaultFirst(env, defaults, key, defaultIncludes) ==
  LET live == EnvRead(env, key)
      r == Fallback(defaults, key, defaultIncludes)
  IN IF r.thrown = <<>> /\ Truthy(r.returned[1]) THEN r ELSE Returned(live)

\* lines 80-86, the body of the try block: a returned value or a thrown error
Resolve(env, defaults, key, defaultIncludes) ==
  LET live == EnvRead(env, key)
  IN IF Truthy(live) THEN Returned(live)
     ELSE Fallback(defaults, key, defaultIncludes)

\* lines 79-94: the try block and its catch handler
get(env, defaults, policy, key, arg) ==
  LET r == Resolve(env, defaults, key, DefaultIncludes(arg))
  IN IF r.thrown = <<>>
     THEN [returned |-> r.returned, thrown |-> <<>>, console |-> <<>>]
     ELSE IF Raises(policy)
     THEN [returned |-> <<>>, thrown |-> r.thrown, console |-> <<>>]
     ELSE IF Warns(policy)
     THEN [returned |-> <<False>>, thrown |-> <<>>, console |-> r.thrown]
     ELSE [returned |-> <<False>>, thrown |-> <<>>, console |-> <<>>]

Get(key, arg) ==
  /\ phase = "constructed"
  /\ LET r == get(penv, default_env, ignoreErrors, key, arg)
     IN /\ result' = r.returned
        /\ thrown' = r.thrown
        /\ console' = r.console
  /\ call' = Call("get", <<>>, key, arg)
  /\ UNCHANGED <<penv, phase, fields, stale>>

(* ---------------- external code changing process.env ---------------- *)

Touched(k) == IF phase = "constructed" THEN stale \cup {k} ELSE stale

SetEnv(k, v) ==
  /\ penv' = EnvAssign(penv, k, v)
  /\ penv' # penv
  /\ stale' = Touched(k)
  /\ call' = Call("setenv", <<>>, "", "")
  /\ result' = <<>>
  /\ thrown' = <<>>
  /\ console' = <<>>
  /\ UNCHANGED <<phase, fields>>

UnsetEnv(k) ==
  /\ EnvHas(penv, k)
  /\ penv' = EnvDelete(penv, k)
  /\ stale' = Touched(k)
  /\ call' = Call("unsetenv", <<>>, "", "")
  /\ result' = <<>>
  /\ thrown' = <<>>
  /\ console' = <<>>
  /\ UNCHANGED <<phase, fields>>

(* ---------------- specification ---------------- *)

Init ==
  /\ penv \in EnvStates
  /\ phase = "new"
  /\ keys = <<>>
  /\ required_keys = <<>>
  /\ default_env = NoTable
  /\ ignoreErrors = "false"
  /\ call = Call("none", <<>>, "", "")
  /\ result = <<>>
  /\ thrown = <<>>
  /\ console = <<>>
  /\ stale = {}

GetArgs == {"true", "false", "omitted"}

\* new Env(declared, required, defaults, policy) with every argument in the bounds
NewEnv ==
  /\ phase = "new"
  /\ \E declared \in SeqsUpTo(KeyNames, MaxDeclared),
        required \in SeqsUpTo(KeyNames, MaxRequired),
        defaults \in DefaultTables,
        policy \in Policies :
       Construct(declared, required, defaults, policy)

Next ==
  \/ NewEnv
  \/ \E key \in KeyNames, arg \in GetArgs : Get(key, arg)
  \/ \E k \in KeyNames, v \in LiveVals : SetEnv(k, v)
  \/ \E k \in KeyNames : UnsetEnv(k)

Spec == Init /\ [][Next]_vars

(* ---------------- what the claims speak of ---------------- *)

Range(s) == {s[i] : i \in DOMAIN s}

\* the keys process.env holds
LiveKeys(env) == {env[i].key : i \in DOMAIN env}

\* right after the constructor ran: the required keys that are neither in
\* process.env nor among the declared keys it was handed
MissingRequired == Range(required_keys) \ (LiveKeys(penv) \cup Range(call.keys))

\* the ways to list the keys of S, each once
Orderings(S) == {s \in [1..Cardinality(S) -> S] : \A i, j \in 1..Cardinality(S) : s[i] = s[j] => i = j}

\* the value process.env holds for the key of the latest get
LiveOfCall == EnvRead(penv, call.key)

\* a default is registered for the key of the latest get
DefaultRegistered == default_env.defined /\ call.key \in DOMAIN default_env.map

IsStringOrFalse(v) == v.type = "string" \/ v = False

\* C1: under ignoreErrors === false, a constructor handed required keys of which
\* some are unknown throws one error whose message lists every missing required
\* key, comma-joined, and no other key.
C1_RaiseListsEveryMissingKey ==
  (call.op = "Env" /\ ignoreErrors = "false" /\ MissingRequired # {}) =>
    /\ phase = "failed"
    /\ \E s \in Orderings(MissingRequired) : thrown = <<MissingMessage(s)>>

\* C2: under ignoreErrors === true, a constructor handed required keys (each
\* named once) of which some are unknown completes and emits one warning whose
\* message lists exactly the missing required keys.
C2_WarnListsEveryMissingKey ==
  (/\ call.op = "Env"
   /\ ignoreErrors = "true"
   /\ Cardinality(Range(required_keys)) = Len(required_keys)
   /\ MissingRequired # {}) =>
    /\ phase = "constructed"
    /\ thrown = <<>>
    /\ \E s \in Orderings(MissingRequired) : console = <<MissingMessage(s)>>

\* C3: the constructor throws or warns only if ignoreErrors is not 0 and some
\* required key is unknown; with every required key known, or under 0, it
\* completes with no diagnostic.
C3_DiagnosticOnlyIfMissingAndNotSilent ==
  call.op = "Env" =>
    /\ (thrown # <<>> \/ console # <<>>) => (ignoreErrors # "0" /\ MissingRequired # {})
    /\ (MissingRequired = {} \/ ignoreErrors = "0") =>
         (phase = "constructed" /\ thrown = <<>> /\ console = <<>>)

\* C3 witness: under 0 the constructor completed silently with two required keys missing
C3_Witness ==
  /\ call.op = "Env"
  /\ ignoreErrors = "0"
  /\ Cardinality(MissingRequired) = 2
  /\ phase = "constructed"
  /\ thrown = <<>>
  /\ console = <<>>

\* C4: after a constructor that completed under ignoreErrors === false, and with
\* process.env unchanged since, get of a required key returns a non-empty string.
C4_RequiredKeyYieldsString ==
  (/\ call.op = "get"
   /\ ignoreErrors = "false"
   /\ stale = {}
   /\ Includes(required_keys, call.key)) =>
    /\ thrown = <<>>
    /\ result # <<>>
    /\ Truthy(result[1])

\* C5: get of a key whose value in process.env is a non-empty string returns
\* exactly that string, whatever the flag, the policy and the default table.
C5_LiveValueReturned ==
  (call.op = "get" /\ Truthy(LiveOfCall)) =>
    (result = <<LiveOfCall>> /\ thrown = <<>> /\ console = <<>>)

\* C5 witness: a get with defaults included returned the live value although
\* another default is registered for the key
C5_Witness ==
  /\ call.op = "get"
  /\ call.arg = "true"
  /\ LiveOfCall = Str("8080")
  /\ DefaultRegistered
  /\ default_env.map[call.key] = "3000"
  /\ result = <<Str("8080")>>

\* C6: for a key with no live value (absent, or the empty string) the flag alone
\* decides: get(key, true) returns the registered default, get(key, false) and
\* get(key) return false even when a default is registered.
C6_FallbackDecidedByFlag ==
  (call.op = "get" /\ ~Truthy(LiveOfCall)) =>
    /\ (call.arg = "true" /\ DefaultRegistered) =>
         (result = <<Str(default_env.map[call.key])>> /\ thrown = <<>>)
    /\ (call.arg \in {"false", "omitted"}) =>
         (result = <<False>> /\ thrown = <<>>)

\* C6 witness: the key is present with the empty string and get(key, true)
\* returned its registered default
C6_Witness ==
  /\ call.op = "get"
  /\ call.arg = "true"
  /\ LiveOfCall = Str("")
  /\ DefaultRegistered
  /\ default_env.map[call.key] = "3000"
  /\ result = <<Str("3000")>>

\* C7: get(key, true) for a key with no live value and no entry in the default
\* table is a failure handled by the policy: it throws under false, warns and
\* returns false under true, returns false silently under 0; it never returns
\* undefined.
C7_MissingDefaultIsLookupFailure ==
  (call.op = "get" /\ call.arg = "true" /\ ~Truthy(LiveOfCall) /\ ~DefaultRegistered) =>
    /\ result # <<Undefined>>
    /\ ignoreErrors = "false" => thrown # <<>>
    /\ ignoreErrors = "true" => (result = <<False>> /\ thrown = <<>> /\ console # <<>>)
    /\ ignoreErrors = "0" => (result = <<False>> /\ thrown = <<>> /\ console = <<>>)

\* C8: under true and 0 the constructor always completes and every get returns,
\* without throwing, a string or false.
C8_LenientNeverHaltsAndYieldsValue ==
  (ignoreErrors \in {"true", "0"}) =>
    /\ phase # "failed"
    /\ call.op = "get" =>
         (thrown = <<>> /\ result # <<>> /\ IsStringOrFalse(result[1]))

\* C9: get answers from process.env as it is at the call: for a key external code
\* set or removed after the constructor ran, the result follows the current
\* value; get(key) of a required key that is now unset returns false under every
\* policy; and no get throws or warns the missing-required-keys message.
C9_GetReadsCurrentEnvironment ==
  call.op = "get" =>
    /\ (call.key \in stale /\ Truthy(LiveOfCall)) => result = <<LiveOfCall>>
    /\ (call.key \in stale /\ ~Truthy(LiveOfCall) /\ call.arg # "true") => result = <<False>>
    /\ (Includes(required_keys, call.key) /\ ~EnvHas(penv, call.key) /\ call.arg = "omitted") =>
         (result = <<False>> /\ thrown = <<>> /\ console = <<>>)
    /\ \A s \in SeqsUpTo(KeyNames, MaxRequired) :
         MissingMessage(s) \notin (Range(thrown) \cup Range(console))

\* C9 witness: a required key that was known to the constructor was removed from
\* process.env afterwards, and get(key) returned false under the raising policy
C9_Witness ==
  /\ call.op = "get"
  /\ call.arg = "omitted"
  /\ ignoreErrors = "false"
  /\ call.key \in stale
  /\ Includes(required_keys, call.key)
  /\ Includes(keys, call.key)
  /\ ~EnvHas(penv, call.key)
  /\ result = <<False>>
  /\ thrown = <<>>
  /\ console = <<>>

\* C10: this.keys is set by the constructor to the duplicate-free union of the
\* keys of process.env at that moment and the declared keys, no later step
\* changes it, and get changes neither the fields of the instance nor process.env.
C10_KnownKeysFixedAtConstruction ==
  [][/\ call'.op = "Env" =>
          /\ Range(keys') = LiveKeys(penv) \cup Range(call'.keys)
          /\ \A i, j \in DOMAIN keys' : keys'[i] = keys'[j] => i = j
     /\ phase = "constructed" => keys' = keys
     /\ call'.op = "get" =>
          UNCHANGED <<keys, required_keys, default_env, ignoreErrors, penv>>]_vars

\* C10 witness: after the constructor ran, external code added a key that is in
\* process.env but not in this.keys, and removed a key that still is in this.keys
C10_Witness ==
  /\ phase = "constructed"
  /\ call.op = "get"
  /\ \E k \in KeyNames : EnvHas(penv, k) /\ ~Includes(keys, k)
  /\ \E k \in KeyNames : ~EnvHas(penv, k) /\ Includes(keys, k) /\ k \in stale

====
